---- MODULE Spec2Model ----
(***************************************************************************)
(* WhyChem (src/main.py): the views of the game and, inside GameView, the   *)
(* per-frame pipeline: level-end check, physics, key-to-velocity mapping,   *)
(* parallax scroll, animation selection and coin collection.                *)
(*                                                                          *)
(* Lengths and velocities are integers in units of 1/100 pixel (Px is one   *)
(* pixel), so that GRAVITY = 1.4 and END_OF_MAP = 12.26 tiles are exact.    *)
(*                                                                          *)
(* The arcade library is the environment.  Its answers (ladder contact,     *)
(* distance to the ground, collisions of a move, coin hits, the camera      *)
(* position) are chosen nondeterministically from the small sets below.     *)
(***************************************************************************)
EXTENDS Integers, FiniteSets, Sequences, TLC

-----------------------------------------------------------------------------
(* Program constants (src/main.py:27-67)                                    *)

Px == 10 * 10

SCREEN_WIDTH == 1000

SCREEN_HEIGHT == 650

TILE_SCALING == 4

SPRITE_PIXEL_SIZE == 128

GRID_PIXEL_SIZE == SPRITE_PIXEL_SIZE * TILE_SCALING

PLAYER_MOVEMENT_SPEED == 7

GRAVITY == (14 * Px) \div 10

PLAYER_JUMP_SPEED == 30

PLAYER_START_X == (SCREEN_WIDTH * Px) \div 4

PLAYER_START_Y == (SCREEN_HEIGHT * Px) \div 4

RIGHT_FACING == 0

LEFT_FACING == 1

\* the ends of each map, in 1/100 tile
END_OF_MAP == <<725, 1226, 1226, 1226>>

FADE_RATE == 5

\* GameView.__init__: self.max_level
max_level == 4

\* the level whose topmost background layer is frozen, and that layer's index
FROZEN_LEVEL == 4

FROZEN_LAYER == 3

-----------------------------------------------------------------------------
(* Bounds of the model                                                      *)

\* coins of one level's map
MaxCoins == 2

\* frames of unobstructed flight (gravity applied, no vertical collision)
\* the maps allow after a velocity has been set
MaxAir == 1

\* steps of PLAYER_MOVEMENT_SPEED before the boundary in which the player's
\* position is tracked exactly
Window == 1

\* camera positions the library may report, as multiples of CamStep around
\* PLAYER_START_X
MaxCam == 1

\* update frames counted in a timed run
MaxFrames == 74

-----------------------------------------------------------------------------
(* The map and the library: inputs                                          *)

\* background layers of a map (sorted names, indices 0..NumLayers-1)
NumLayers == FROZEN_LAYER + 1

Layers == 0 .. (NumLayers - 1)

\* a camera step on which every layer's shift is a whole number of units
CamStep == 5 * 6 * 7 * Px

CameraXs == {PLAYER_START_X + k * CamStep : k \in (0 - MaxCam) .. MaxCam}

\* distance from the player's feet to the ground, in pixels:
\* standing, within can_jump(10) but not can_jump(5), airborne
GroundGaps == {0, 8, 100}

Keys == {"UP", "DOWN", "LEFT", "RIGHT", "SPACE"}

\* A world is what one run of the game meets: the keys the player uses, the
\* terrain (ladder contact and ground gap) the physics engine may report, the
\* frames of unobstructed flight, the coins of each level's map and the
\* positions the camera may be at.  free: no wall stands in the player's way,
\* and the player's position is tracked everywhere.
Worlds ==
    { [ name |-> "terrain",
        keys |-> {"UP", "DOWN", "LEFT", "RIGHT"},
        terrain |-> BOOLEAN \X GroundGaps,
        air |-> MaxAir,
        coins |-> {},
        cams |-> {PLAYER_START_X},
        free |-> FALSE ],
      [ name |-> "levels",
        keys |-> {"LEFT", "RIGHT", "SPACE"},
        terrain |-> {<<FALSE, 0>>},
        air |-> 0,
        coins |-> {},
        cams |-> {PLAYER_START_X},
        free |-> FALSE ],
      [ name |-> "coins",
        keys |-> {"RIGHT", "SPACE"},
        terrain |-> {<<FALSE, 0>>},
        air |-> 0,
        coins |-> 1 .. MaxCoins,
        cams |-> {PLAYER_START_X},
        free |-> FALSE ],
      [ name |-> "camera",
        keys |-> {"RIGHT", "SPACE"},
        terrain |-> {<<FALSE, 0>>},
        air |-> 0,
        coins |-> {},
        cams |-> CameraXs,
        free |-> FALSE ] }

\* no game is running
NoWorld ==
    [ name |-> "none", keys |-> {}, terrain |-> {}, air |-> 0, coins |-> {},
      cams |-> {}, free |-> FALSE ]

\* half the width of the player's hit box (set from the idle texture)
PlayerHalfWidth == (SPRITE_PIXEL_SIZE * Px) \div 4

-----------------------------------------------------------------------------
(* PlayerCharacter                                                          *)

\* textures: <<kind, frame, facing>>; the climbing textures are not pairs
IdleTexture(face) == <<"idle", 0, face>>

JumpTexture(face) == <<"jump", 0, face>>

FallTexture(face) == <<"fall", 0, face>>

WalkTexture(frame, face) == <<"walk", frame, face>>

ClimbingTexture(frame) == <<"climb", frame, RIGHT_FACING>>

\* PlayerCharacter.__init__: a new sprite (arcade.Sprite puts it at the
\* origin, at rest)
PlayerCharacter ==
    [ center_x |-> 0, center_y |-> 0, change_x |-> 0, change_y |-> 0,
      character_face_direction |-> RIGHT_FACING,
      cur_texture |-> 0,
      jumping |-> FALSE, climbing |-> FALSE, is_on_ladder |-> FALSE,
      texture |-> IdleTexture(RIGHT_FACING) ]

\* arcade.Sprite.right: the hit box is fixed at construction
Right(p) == p.center_x + PlayerHalfWidth

AbsVal(v) == IF v < 0 THEN 0 - v ELSE v

NextTextureStuck(cur) == cur

NextTextureLate(cur) == IF cur + 1 > 8 THEN 0 ELSE cur + 1

\* self.cur_texture += 1; if self.cur_texture > 7: self.cur_texture = 0
NextTexture(cur) == IF cur + 1 > 7 THEN 0 ELSE cur + 1

FaceDirectionEager(p) ==
    IF p.change_x <= 0 /\ p.character_face_direction = RIGHT_FACING
    THEN LEFT_FACING
    ELSE IF p.change_x > 0 /\ p.character_face_direction = LEFT_FACING
         THEN RIGHT_FACING
         ELSE p.character_face_direction

\* the face-direction flip at the head of update_animation
FaceDirection(p) ==
    IF p.change_x < 0 /\ p.character_face_direction = RIGHT_FACING
    THEN LEFT_FACING
    ELSE IF p.change_x > 0 /\ p.character_face_direction = LEFT_FACING
         THEN RIGHT_FACING
         ELSE p.character_face_direction

ClimbingKept(p) == IF p.is_on_ladder THEN TRUE ELSE p.climbing

\* the two assignments to self.climbing, in order
Climbing(p) ==
    LET c1 == IF p.is_on_ladder THEN TRUE ELSE p.climbing
    IN  IF (~p.is_on_ladder) /\ c1 THEN FALSE ELSE c1

ClimbAdvancesAlways(p, climbing) == climbing

\* if self.climbing and abs(self.change_y) > 1
ClimbAdvances(p, climbing) == climbing /\ AbsVal(p.change_y) > 1 * Px

ClimbFrameFirst(cur) == 0

\* self.cur_texture // 4: the climbing texture shown
ClimbFrame(cur) == cur \div 4

\* PlayerCharacter.update_animation
UpdateAnimation(p) ==
    LET face == FaceDirection(p)
        climbing == Climbing(p)
        cur1 == IF ClimbAdvances(p, climbing)
                THEN NextTexture(p.cur_texture)
                ELSE p.cur_texture
        q == [p EXCEPT !.character_face_direction = face,
                       !.climbing = climbing,
                       !.cur_texture = cur1]
    IN  IF climbing
        THEN [q EXCEPT !.texture = ClimbingTexture(ClimbFrame(cur1))]
        ELSE IF p.change_y > 0 /\ ~p.is_on_ladder
        THEN [q EXCEPT !.texture = JumpTexture(face)]
        ELSE IF p.change_y < 0 /\ ~p.is_on_ladder
        THEN [q EXCEPT !.texture = FallTexture(face)]
        ELSE IF p.change_x = 0
        THEN [q EXCEPT !.texture = IdleTexture(face)]
        ELSE [q EXCEPT !.cur_texture = NextTexture(cur1),
                       !.texture = WalkTexture(NextTexture(cur1), face)]

-----------------------------------------------------------------------------
(* arcade.PhysicsEnginePlatformer: the queries the game makes               *)

\* physics_engine.can_jump(y_distance): a wall within y_distance below
CanJump(gap, y_distance) == gap <= y_distance

-----------------------------------------------------------------------------
(* GameView: key handling                                                   *)

JumpAllowedAgain(gap, jnr) == CanJump(gap, 10)

\* self.physics_engine.can_jump(y_distance=10) and not self.jump_needs_reset
JumpAllowed(gap, jnr) == CanJump(gap, 10) /\ ~jnr

LadderNeutralReleased(up, down) == ~up /\ ~down

\* on a ladder: neither up nor down, or both
LadderNeutral(up, down) == (~up /\ ~down) \/ (up /\ down)

\* GameView.process_keychange, up and down, on the player sprite p.  The
\* result is the sprite, jump_needs_reset and whether the jump sound played.
ProcessUpDown(p, up, down, jnr, ladder, gap) ==
    LET r0 == [p |-> p, jnr |-> jnr, sound |-> FALSE]
        r1 == IF up /\ ~down
              THEN IF ladder
                   THEN [r0 EXCEPT !.p.change_y = PLAYER_MOVEMENT_SPEED * Px]
                   ELSE IF JumpAllowed(gap, jnr)
                        THEN [p |-> [p EXCEPT !.change_y = PLAYER_JUMP_SPEED * Px],
                              jnr |-> TRUE, sound |-> TRUE]
                        ELSE r0
              ELSE IF down /\ ~up
                   THEN IF ladder
                        THEN [r0 EXCEPT !.p.change_y = 0 - PLAYER_MOVEMENT_SPEED * Px]
                        ELSE r0
                   ELSE r0
    IN  IF ladder /\ LadderNeutral(up, down)
        THEN [r1 EXCEPT !.p.change_y = 0]
        ELSE r1

ProcessLeftRightKeeps(p, left, right) ==
    IF right /\ ~left
    THEN [p EXCEPT !.change_x = PLAYER_MOVEMENT_SPEED * Px]
    ELSE IF left /\ ~right
         THEN [p EXCEPT !.change_x = 0 - PLAYER_MOVEMENT_SPEED * Px]
         ELSE p

\* GameView.process_keychange, left and right
ProcessLeftRight(p, left, right) ==
    IF right /\ ~left
    THEN [p EXCEPT !.change_x = PLAYER_MOVEMENT_SPEED * Px]
    ELSE IF left /\ ~right
         THEN [p EXCEPT !.change_x = 0 - PLAYER_MOVEMENT_SPEED * Px]
         ELSE [p EXCEPT !.change_x = 0]

\* GameView.process_keychange
ProcessKeychange(p, up, down, left, right, jnr, over, ladder, gap) ==
    IF ~over
    THEN LET r == ProcessUpDown(p, up, down, jnr, ladder, gap)
         IN  [r EXCEPT !.p = ProcessLeftRight(r.p, left, right)]
    ELSE [p |-> p, jnr |-> jnr, sound |-> FALSE]

-----------------------------------------------------------------------------
(* State                                                                    *)

VARIABLES
    world,              \* the world of the running game
    view,               \* the window's active view
    fade_in, fade_out,  \* FadingView: <<>> is None, <<a>> is the alpha a
    left_pressed, right_pressed, up_pressed, down_pressed,
    jump_needs_reset,
    level, level_over, next_level,
    score,
    end_of_map,
    camera_x_prev,
    player_sprite,
    coins,              \* scene["Coins"]: the coins still in the sprite list
    layer_left,         \* background layer -> offset of its sprites' left
    on_ladder,          \* physics engine: the player touches a ladder
    ground_gap,         \* physics engine: pixels between player and ground
    jump_sounds,        \* plays of jump_sound since up was last released
    victory_sounds,     \* plays of victory_sound in this game
    frames              \* update frames of a timed run so far

keys == <<left_pressed, right_pressed, up_pressed, down_pressed>>

fades == <<fade_in, fade_out>>

progress == <<level, level_over, next_level, end_of_map>>

scene == <<coins, layer_left, camera_x_prev, score>>

physics == <<on_ladder, ground_gap>>

vars == <<world, view, fades, keys, jump_needs_reset, progress, scene, physics,
          player_sprite, jump_sounds, victory_sounds, frames>>

None == <<>>

Some(a) == <<a>>

\* a counter of the model, kept within what the claims distinguish
Count(n) == IF n > 2 THEN 2 ELSE n

-----------------------------------------------------------------------------
(* GameView: construction and level loading                                 *)

EndOfMapFirst(lvl) == END_OF_MAP[1] * GRID_PIXEL_SIZE

\* self.end_of_map = END_OF_MAP[level-1] * GRID_PIXEL_SIZE
EndOfMap(lvl) == END_OF_MAP[lvl] * GRID_PIXEL_SIZE

\* load_level: the new player sprite, placed at the start coordinates
LoadedPlayer ==
    [PlayerCharacter EXCEPT !.center_x = PLAYER_START_X,
                            !.center_y = PLAYER_START_Y]

ReenteredPlayerAtStart(p) == [p EXCEPT !.change_x = 0, !.change_y = 0]

\* on_update, after load_level: the re-entry point, at rest
ReenteredPlayer(p) ==
    [p EXCEPT !.center_x = SCREEN_WIDTH * Px,
              !.center_y = (SCREEN_HEIGHT * Px) \div 2,
              !.change_x = 0,
              !.change_y = 0]

\* the fields of a GameView after __init__; player_sprite stands for None.
\* victory_sounds keeps the plays of the game that ended.
NoGame ==
    /\ world' = NoWorld
    /\ left_pressed' = FALSE /\ right_pressed' = FALSE
    /\ up_pressed' = FALSE /\ down_pressed' = FALSE
    /\ jump_needs_reset' = FALSE
    /\ level' = 1 /\ level_over' = FALSE /\ next_level' = FALSE
    /\ score' = 0
    /\ end_of_map' = 0
    /\ camera_x_prev' = PLAYER_START_X
    /\ player_sprite' = PlayerCharacter
    /\ coins' = {}
    /\ layer_left' = [i \in Layers |-> 0]
    /\ on_ladder' = FALSE /\ ground_gap' = 0
    /\ jump_sounds' = 0

\* GameView() and setup(): load_level(1) with the map's scene, score 0
NewGame(w, ladder, gap) ==
    /\ world' = w
    /\ left_pressed' = FALSE /\ right_pressed' = FALSE
    /\ up_pressed' = FALSE /\ down_pressed' = FALSE
    /\ jump_needs_reset' = FALSE
    /\ level' = 1 /\ level_over' = FALSE /\ next_level' = FALSE
    /\ score' = 0
    /\ end_of_map' = EndOfMap(1)
    /\ camera_x_prev' = PLAYER_START_X
    /\ player_sprite' = LoadedPlayer
    /\ coins' = w.coins
    /\ layer_left' = [i \in Layers |-> 0]
    /\ on_ladder' = ladder /\ ground_gap' = gap
    /\ jump_sounds' = 0 /\ victory_sounds' = 0

-----------------------------------------------------------------------------
(* FadingView (StartView, EndView, EndView2)                                *)

FadingViews == {"StartView", "EndView", "EndView2"}

NextViewBack(v) ==
    CASE v = "StartView" -> "GameView"
      [] v = "EndView"   -> "StartView"
      [] v = "EndView2"  -> "StartView"

NextView(v) ==
    CASE v = "StartView" -> "GameView"
      [] v = "EndView"   -> "EndView2"
      [] v = "EndView2"  -> "StartView"

\* FadingView.__init__
NewFadingView == fade_out' = None /\ fade_in' = Some(255)

FadeInToZero(f) ==
    IF f = None THEN None
    ELSE IF f[1] - FADE_RATE < 0 THEN None ELSE Some(f[1] - FADE_RATE)

\* the fade_in half of update_fade
FadeIn(f) ==
    IF f = None THEN None
    ELSE IF f[1] - FADE_RATE <= 0 THEN None ELSE Some(f[1] - FADE_RATE)

\* the fade_out half of update_fade: the alpha after the step
FadeOut(f) == IF f = None THEN None ELSE Some(f[1] + FADE_RATE)

FadingKeyPressRestarts ==
    /\ view \in FadingViews
    /\ fade_out' = Some(0)
    /\ UNCHANGED <<world, view, fade_in, keys, jump_needs_reset, progress,
                   scene, physics, player_sprite, jump_sounds, victory_sounds>>

\* on_key_press of a fading view: space starts the fade-out
FadingKeyPress ==
    /\ view \in FadingViews
    /\ fade_out = None
    /\ fade_out' = Some(0)
    /\ UNCHANGED <<world, view, fade_in, keys, jump_needs_reset, progress,
                   scene, physics, player_sprite, jump_sounds, victory_sounds>>

\* on_update of a fading view: update_fade(next_view)
FadingUpdate ==
    /\ view \in FadingViews
    /\ LET out == FadeOut(fade_out)
       IN  IF out # None /\ out[1] > 255
           THEN /\ view' = NextView(view)
                /\ IF NextView(view) = "GameView"
                   THEN /\ fade_in' = None /\ fade_out' = None
                        /\ \E w \in Worlds : \E t \in w.terrain :
                              NewGame(w, t[1], t[2])
                   ELSE /\ NewFadingView
                        /\ UNCHANGED <<world, keys, jump_needs_reset, progress,
                                       scene, physics, player_sprite,
                                       jump_sounds, victory_sounds>>
           ELSE /\ fade_out' = out
                /\ fade_in' = FadeIn(fade_in)
                /\ UNCHANGED <<world, view, keys, jump_needs_reset, progress,
                               scene, physics, player_sprite, jump_sounds,
                               victory_sounds>>

-----------------------------------------------------------------------------
(* GameView: key events                                                     *)

\* the call of process_keychange that ends on_key_press and on_key_release
KeyChanged ==
    LET r == ProcessKeychange(player_sprite, up_pressed', down_pressed',
                              left_pressed', right_pressed',
                              jump_needs_reset, level_over, on_ladder,
                              ground_gap)
    IN  /\ player_sprite' = r.p
        /\ jump_needs_reset' = r.jnr
        /\ jump_sounds' = IF r.sound THEN Count(jump_sounds + 1) ELSE jump_sounds

OnKeyPressAnytime(key) ==
    /\ view = "GameView"
    /\ up_pressed' = IF key = "UP" THEN TRUE ELSE up_pressed
    /\ down_pressed' = IF key = "DOWN" THEN TRUE ELSE down_pressed
    /\ left_pressed' = IF key = "LEFT" THEN TRUE ELSE left_pressed
    /\ right_pressed' = IF key = "RIGHT" THEN TRUE ELSE right_pressed
    /\ next_level' = IF key = "SPACE" THEN TRUE ELSE next_level
    /\ KeyChanged
    /\ UNCHANGED <<world, view, fades, level, level_over, end_of_map, scene,
                   physics, victory_sounds>>

\* GameView.on_key_press (W, S, A, D are UP, DOWN, LEFT, RIGHT)
OnKeyPress(key) ==
    /\ view = "GameView"
    /\ up_pressed' = IF key = "UP" THEN TRUE ELSE up_pressed
    /\ down_pressed' = IF key = "DOWN" THEN TRUE ELSE down_pressed
    /\ left_pressed' = IF key = "LEFT" THEN TRUE ELSE left_pressed
    /\ right_pressed' = IF key = "RIGHT" THEN TRUE ELSE right_pressed
    /\ next_level' = IF key = "SPACE" /\ level_over THEN TRUE ELSE next_level
    /\ KeyChanged
    /\ UNCHANGED <<world, view, fades, level, level_over, end_of_map, scene,
                   physics, victory_sounds>>

\* GameView.on_key_release: releasing up re-arms the jump
OnKeyRelease(key) ==
    /\ view = "GameView"
    /\ up_pressed' = IF key = "UP" THEN FALSE ELSE up_pressed
    /\ down_pressed' = IF key = "DOWN" THEN FALSE ELSE down_pressed
    /\ left_pressed' = IF key = "LEFT" THEN FALSE ELSE left_pressed
    /\ right_pressed' = IF key = "RIGHT" THEN FALSE ELSE right_pressed
    /\ LET r == ProcessKeychange(player_sprite, up_pressed', down_pressed',
                                 left_pressed', right_pressed',
                                 IF key = "UP" THEN FALSE ELSE jump_needs_reset,
                                 level_over, on_ladder, ground_gap)
       IN  /\ player_sprite' = r.p
           /\ jump_needs_reset' = r.jnr
           /\ jump_sounds' =
                 LET since == IF key = "UP" THEN 0 ELSE jump_sounds
                 IN  IF r.sound THEN Count(since + 1) ELSE since
    /\ UNCHANGED <<world, view, fades, progress, scene, physics,
                   victory_sounds>>

-----------------------------------------------------------------------------
(* GameView.on_update                                                       *)

\* where load_level or the re-entry puts the player on a level
EntryX(lvl) == IF lvl = 1 THEN PLAYER_START_X ELSE SCREEN_WIDTH * Px

\* The positions of a level short of the last Window steps before its
\* boundary are identified with the level's entry point: there the player's
\* x is not tracked.
Tracked(x, eom) ==
    x + PlayerHalfWidth >= eom - Window * PLAYER_MOVEMENT_SPEED * Px

\* where the player may come into the tracked positions: a whole number of
\* steps before the boundary (the right edge then meets it exactly), or
\* 3 pixels further (the right edge then passes it)
WindowEntries(eom) ==
    { eom - Window * PLAYER_MOVEMENT_SPEED * Px + off - PlayerHalfWidth :
        off \in {0, 3 * Px} }

MoveXBlocked(p, lvl, eom) == {p.center_x}

\* physics_engine.update(), horizontally: the positions the move can end at
\* (blocked by a wall, or moved by change_x)
MoveX(p, lvl, eom) ==
    IF world.free
    THEN {p.center_x + p.change_x}
    ELSE IF Tracked(p.center_x, eom)
    THEN { p.center_x,
           IF Tracked(p.center_x + p.change_x, eom)
           THEN p.center_x + p.change_x
           ELSE EntryX(lvl) }
    ELSE {p.center_x} \cup (IF p.change_x > 0 THEN WindowEntries(eom) ELSE {})

\* the vertical velocities of an unobstructed flight of at most MaxAir frames
FlightVelocities(air) ==
    { v - k * GRAVITY :
        v \in { 0, PLAYER_JUMP_SPEED * Px, PLAYER_MOVEMENT_SPEED * Px,
                0 - PLAYER_MOVEMENT_SPEED * Px },
        k \in 1 .. air }

\* physics_engine.update(), vertically: gravity off a ladder; a collision
\* stops the player.  hit: the move ends on a wall.
Gravity(p, ladder) ==
    IF ladder THEN p.change_y ELSE p.change_y - GRAVITY

FallsOnGround(dy, gap) == dy < 0 /\ 0 - dy > gap * Px

MayFly(dy, ladder, gap, air) ==
    /\ ~FallsOnGround(dy, gap)
    /\ (ladder \/ dy \in FlightVelocities(air) \/ dy = 0)

PhysicsUpdate(p, ladder, hit, x) ==
    [p EXCEPT !.change_y = IF hit THEN 0 ELSE Gravity(p, ladder),
              !.center_x = x]

ParallaxShiftByIndex(count, cam, prev) == ((cam - prev) * 4) \div (count + 1)

\* the shift of background layer count for a camera move from prev to cam
ParallaxShift(count, cam, prev) == ((cam - prev) * 4) \div (count + 4)

\* the parallax loop over the background layers
Parallax(lvl, cam, prev, left) ==
    [count \in Layers |->
        IF lvl > 1 /\ ~(lvl = FROZEN_LEVEL /\ count = FROZEN_LAYER)
        THEN left[count] + ParallaxShift(count, cam, prev)
        ELSE left[count]]

CollectedOnce(sc, hits) == IF hits = {} THEN sc ELSE sc + 10

\* the coin loop: 10 points for each coin hit
Collected(sc, hits) == sc + 10 * Cardinality(hits)

PipelineInputFirst(hit, x, ladder, gap, cam, hits) ==
    LET r  == ProcessKeychange(player_sprite, up_pressed, down_pressed,
                               left_pressed, right_pressed, jump_needs_reset,
                               level_over, on_ladder, ground_gap)
        p1 == PhysicsUpdate(r.p, on_ladder, hit, x)
        p2 == [p1 EXCEPT !.is_on_ladder = ladder /\ ~CanJump(gap, 5)]
    IN  /\ on_ladder' = ladder
        /\ ground_gap' = gap
        /\ jump_needs_reset' = r.jnr
        /\ jump_sounds' = IF r.sound THEN Count(jump_sounds + 1) ELSE jump_sounds
        /\ layer_left' = Parallax(level, cam, camera_x_prev, layer_left)
        /\ camera_x_prev' = cam
        /\ player_sprite' = UpdateAnimation(p2)
        /\ score' = Collected(score, hits)
        /\ coins' = coins \ hits
        /\ UNCHANGED <<world, view, fades, keys, progress, victory_sounds>>

\* the branch of on_update taken before the boundary
Pipeline(hit, x, ladder, gap, cam, hits) ==
    LET p1 == PhysicsUpdate(player_sprite, on_ladder, hit, x)
        p2 == [p1 EXCEPT !.is_on_ladder = ladder /\ ~CanJump(gap, 5)]
        r  == ProcessKeychange(p2, up_pressed, down_pressed, left_pressed,
                               right_pressed, jump_needs_reset, level_over,
                               ladder, gap)
    IN  /\ on_ladder' = ladder
        /\ ground_gap' = gap
        /\ jump_needs_reset' = r.jnr
        /\ jump_sounds' = IF r.sound THEN Count(jump_sounds + 1) ELSE jump_sounds
        /\ layer_left' = Parallax(level, cam, camera_x_prev, layer_left)
        /\ camera_x_prev' = cam
        /\ player_sprite' = UpdateAnimation(r.p)
        /\ score' = Collected(score, hits)
        /\ coins' = coins \ hits
        /\ UNCHANGED <<world, view, fades, keys, progress, victory_sounds>>

TransitionKeepsRequest(ladder, gap) ==
    /\ level_over' = FALSE
    /\ next_level' = next_level
    /\ level' = level + 1
    /\ end_of_map' = EndOfMap(level + 1)
    /\ player_sprite' = ReenteredPlayer(LoadedPlayer)
    /\ coins' = world.coins
    /\ layer_left' = [i \in Layers |-> 0]
    /\ camera_x_prev' = PLAYER_START_X
    /\ on_ladder' = ladder
    /\ ground_gap' = gap
    /\ UNCHANGED <<world, view, fades, keys, jump_needs_reset, score,
                   jump_sounds>>

TransitionRepositions(ladder, gap) ==
    /\ level_over' = FALSE
    /\ next_level' = FALSE
    /\ level' = level + 1
    /\ end_of_map' = EndOfMap(level + 1)
    /\ player_sprite' = ReenteredPlayer(player_sprite)
    /\ coins' = world.coins
    /\ layer_left' = [i \in Layers |-> 0]
    /\ camera_x_prev' = PLAYER_START_X
    /\ on_ladder' = ladder
    /\ ground_gap' = gap
    /\ UNCHANGED <<world, view, fades, keys, jump_needs_reset, score,
                   jump_sounds>>

\* the level transition: level += 1, load_level, the re-entry
Transition(ladder, gap) ==
    /\ level_over' = FALSE
    /\ next_level' = FALSE
    /\ level' = level + 1
    /\ end_of_map' = EndOfMap(level + 1)
    /\ player_sprite' = ReenteredPlayer(LoadedPlayer)
    /\ coins' = world.coins
    /\ layer_left' = [i \in Layers |-> 0]
    /\ camera_x_prev' = PLAYER_START_X
    /\ on_ladder' = ladder
    /\ ground_gap' = gap
    /\ UNCHANGED <<world, view, fades, keys, jump_needs_reset, score,
                   jump_sounds>>

VictoryEveryFrame == level = 4

\* the victory sound and pause of the last level
Victory == level = 4 /\ ~level_over

WaitAtBoundaryToggles ==
    /\ level_over' = ~level_over
    /\ UNCHANGED <<world, view, fades, keys, jump_needs_reset, level,
                   next_level, end_of_map, scene, physics, player_sprite,
                   jump_sounds>>

WaitAtBoundaryStops ==
    /\ level_over' = TRUE
    /\ player_sprite' = [player_sprite EXCEPT !.change_x = 0, !.change_y = 0]
    /\ UNCHANGED <<world, view, fades, keys, jump_needs_reset, level,
                   next_level, end_of_map, scene, physics, jump_sounds>>

\* self.level_over = True, with no advance requested
WaitAtBoundary ==
    /\ level_over' = TRUE
    /\ UNCHANGED <<world, view, fades, keys, jump_needs_reset, level,
                   next_level, end_of_map, scene, physics, player_sprite,
                   jump_sounds>>

AtBoundaryEnds ==
    /\ victory_sounds' = IF Victory THEN Count(victory_sounds + 1)
                         ELSE victory_sounds
    /\ IF level < max_level
       THEN IF next_level
            THEN \E t \in world.terrain : Transition(t[1], t[2])
            ELSE WaitAtBoundary
       ELSE /\ view' = "EndView"
            /\ NewFadingView
            /\ NoGame

\* the branch of on_update taken at or beyond the boundary
AtBoundary ==
    /\ victory_sounds' = IF Victory THEN Count(victory_sounds + 1)
                         ELSE victory_sounds
    /\ IF level < max_level
       THEN IF next_level
            THEN \E t \in world.terrain : Transition(t[1], t[2])
            ELSE WaitAtBoundary
       ELSE IF next_level
            THEN /\ view' = "EndView"
                 /\ NewFadingView
                 /\ NoGame
            ELSE WaitAtBoundary

OnUpdate ==
    /\ view = "GameView"
    /\ IF Right(player_sprite) >= end_of_map
       THEN AtBoundary
       ELSE \E hit \in BOOLEAN, t \in world.terrain :
               /\ hit \/ MayFly(Gravity(player_sprite, on_ladder), on_ladder,
                                ground_gap, world.air)
               /\ (hit /\ Gravity(player_sprite, on_ladder) < 0) => t[2] = 0
               /\ \E x \in MoveX(player_sprite, level, end_of_map),
                     cam \in world.cams, hits \in SUBSET coins :
                     Pipeline(hit, x, t[1], t[2], cam, hits)

-----------------------------------------------------------------------------
(* The program                                                               *)

\* main(): the window shows a StartView
Init ==
    /\ world = NoWorld
    /\ view = "StartView"
    /\ fade_out = None /\ fade_in = Some(255)
    /\ left_pressed = FALSE /\ right_pressed = FALSE
    /\ up_pressed = FALSE /\ down_pressed = FALSE
    /\ jump_needs_reset = FALSE
    /\ level = 1 /\ level_over = FALSE /\ next_level = FALSE
    /\ score = 0
    /\ end_of_map = 0
    /\ camera_x_prev = PLAYER_START_X
    /\ player_sprite = PlayerCharacter
    /\ coins = {}
    /\ layer_left = [i \in Layers |-> 0]
    /\ on_ladder = FALSE /\ ground_gap = 0
    /\ jump_sounds = 0 /\ victory_sounds = 0
    /\ frames = 0

Next ==
    \/ FadingKeyPress /\ UNCHANGED frames
    \/ FadingUpdate /\ UNCHANGED frames
    \/ \E key \in world.keys : OnKeyPress(key) /\ UNCHANGED frames
    \/ \E key \in world.keys : OnKeyRelease(key) /\ UNCHANGED frames
    \/ OnUpdate /\ UNCHANGED frames

Spec == Init /\ [][Next]_vars

-----------------------------------------------------------------------------
(* A timed run: right held on open ground, RunDistance before the boundary  *)

\* the distance of the run
RunDistance == 500 * Px

\* ceil(RunDistance / PLAYER_MOVEMENT_SPEED)
RunFrames ==
    (RunDistance + PLAYER_MOVEMENT_SPEED * Px - 1)
        \div (PLAYER_MOVEMENT_SPEED * Px)

\* open ground; the run's distance is measured from the player's centre, or
\* from its right edge
RunWorlds ==
    { [ name |-> n, keys |-> {}, terrain |-> {<<FALSE, 0>>}, air |-> 0,
        coins |-> {}, cams |-> {PLAYER_START_X}, free |-> TRUE ] :
      n \in {"centre", "edge"} }

\* the player's position, as the run measures it
Position ==
    IF world.name = "edge" THEN Right(player_sprite)
    ELSE player_sprite.center_x

\* a level below the last is being played, the player stands RunDistance
\* before the boundary and right has just been pressed
RunInit ==
    /\ world \in RunWorlds
    /\ view = "GameView"
    /\ fade_out = None /\ fade_in = None
    /\ left_pressed = FALSE /\ right_pressed = TRUE
    /\ up_pressed = FALSE /\ down_pressed = FALSE
    /\ jump_needs_reset = FALSE
    /\ level \in 1 .. (max_level - 1)
    /\ level_over = FALSE /\ next_level = FALSE
    /\ score = 0
    /\ end_of_map = EndOfMap(level)
    /\ camera_x_prev = PLAYER_START_X
    /\ player_sprite =
          ProcessLeftRight(
              [LoadedPlayer EXCEPT
                  !.center_x = EndOfMap(level) - RunDistance
                                 - (IF world.name = "edge"
                                    THEN PlayerHalfWidth ELSE 0)],
              FALSE, TRUE)
    /\ coins = {}
    /\ layer_left = [i \in Layers |-> 0]
    /\ on_ladder = FALSE /\ ground_gap = 0
    /\ jump_sounds = 0 /\ victory_sounds = 0
    /\ frames = 0

\* the update frames of the run, counted
RunNext == frames < MaxFrames /\ OnUpdate /\ frames' = frames + 1

SpecRun == RunInit /\ [][RunNext]_vars

-----------------------------------------------------------------------------
(* update_animation on its own, over the states of a player sprite          *)

\* vertical velocities about the threshold abs(change_y) > 1 and beyond it
AnimationDys ==
    { 0 - PLAYER_MOVEMENT_SPEED * Px, 0 - Px - 1, 0 - Px, 0, Px, Px + 1,
      PLAYER_MOVEMENT_SPEED * Px }

AnimationDxs == {0 - PLAYER_MOVEMENT_SPEED * Px, 0, PLAYER_MOVEMENT_SPEED * Px}

\* the player sprites an evaluation may meet
AnimationInputs ==
    { [LoadedPlayer EXCEPT
          !.change_x = dx, !.change_y = dy,
          !.is_on_ladder = ladder, !.climbing = climbing,
          !.cur_texture = cur, !.character_face_direction = face,
          !.texture = tex] :
        dx \in AnimationDxs, dy \in AnimationDys,
        ladder \in BOOLEAN, climbing \in BOOLEAN,
        cur \in 0 .. 7, face \in {RIGHT_FACING, LEFT_FACING},
        tex \in { IdleTexture(RIGHT_FACING), ClimbingTexture(1),
                  WalkTexture(3, LEFT_FACING) } }

AnimationInit ==
    /\ world = NoWorld
    /\ view = "GameView"
    /\ fade_out = None /\ fade_in = None
    /\ left_pressed = FALSE /\ right_pressed = FALSE
    /\ up_pressed = FALSE /\ down_pressed = FALSE
    /\ jump_needs_reset = FALSE
    /\ level = 1 /\ level_over = FALSE /\ next_level = FALSE
    /\ score = 0
    /\ end_of_map = EndOfMap(1)
    /\ camera_x_prev = PLAYER_START_X
    /\ player_sprite \in AnimationInputs
    /\ coins = {}
    /\ layer_left = [i \in Layers |-> 0]
    /\ on_ladder = FALSE /\ ground_gap = 0
    /\ jump_sounds = 0 /\ victory_sounds = 0
    /\ frames = 0

\* one call of player_sprite.update_animation()
EvaluateAnimation ==
    /\ player_sprite' = UpdateAnimation(player_sprite)
    /\ UNCHANGED <<world, view, fades, keys, jump_needs_reset, progress,
                   scene, physics, jump_sounds, victory_sounds, frames>>

SpecAnimation == AnimationInit /\ [][EvaluateAnimation]_vars

-----------------------------------------------------------------------------
(* Properties                                                               *)

InGame == view = "GameView"

\* a step of the running game (not the start of a game, not its end)
GameStep == view = "GameView" /\ view' = "GameView"

BeyondBoundary == Right(player_sprite) >= end_of_map

\* a frame that runs the pipeline
PipelineFrame == OnUpdate /\ ~BeyondBoundary

\* C1: on a level below the last, a frame with the player's right edge at or
\* beyond end_of_map leaves level_over true, and level_over, once true, stays
\* true (and the player stays at the boundary) in every step until the level
\* transition, the step that adds 1 to level.
C1_LevelOverLatches ==
    [][ (GameStep /\ level < max_level /\ BeyondBoundary /\ level' # level + 1)
        => /\ OnUpdate => level_over'
           /\ level_over => level_over'
           /\ level' = level
           /\ Right(player_sprite') >= end_of_map' ]_vars

\* C1: waiting at the boundary of a level below the last, with keys pressed
C1_Waiting ==
    /\ InGame /\ level_over /\ level < max_level /\ ~next_level
    /\ BeyondBoundary
    /\ right_pressed /\ left_pressed

\* C2: the level changes only in a transition, which adds exactly 1, is
\* taken at the boundary with level_over and next_level set, and leaves
\* level_over and next_level false and the player before the new boundary.
C2_LevelAdvancesByOne ==
    [][ (GameStep /\ level' # level)
        => /\ level' = level + 1
           /\ BeyondBoundary /\ level_over /\ next_level
           /\ ~level_over' /\ ~next_level'
           /\ Right(player_sprite') < end_of_map' ]_vars

\* C2: the third level is being played, after two transitions
C2_ThirdLevel == InGame /\ level = 3 /\ ~level_over /\ ~next_level

\* C3: since up was last released the jump sound has played at most once;
\* a press of up with the player grounded, off a ladder, down released and
\* the level not over sets change_y to PLAYER_JUMP_SPEED and plays the sound
\* once; while up stays pressed after a jump no further jump is triggered.
C3_OneJumpPerPress ==
    [][ GameStep
        => /\ jump_sounds' <= 1
           /\ ( /\ ~up_pressed /\ up_pressed'
                /\ ~down_pressed /\ ~on_ladder /\ CanJump(ground_gap, 10)
                /\ ~level_over )
              => /\ player_sprite'.change_y = PLAYER_JUMP_SPEED * Px
                 /\ jump_sounds' = 1
                 /\ jump_needs_reset'
           /\ (up_pressed /\ up_pressed' /\ jump_needs_reset)
              => (jump_sounds' = jump_sounds /\ jump_needs_reset') ]_vars

\* C3: up is still held after its jump, the player is back on the ground
\* and the level is not over
C3_HeldAfterJump ==
    /\ InGame /\ up_pressed /\ ~down_pressed /\ jump_needs_reset
    /\ jump_sounds = 1
    /\ ~on_ladder /\ CanJump(ground_gap, 10) /\ ~level_over
    /\ player_sprite.change_y = 0

\* C4: in a step of a game the score does not decrease; within a level it
\* grows by 10 for each coin that leaves the coin list and the list only
\* shrinks; a level transition leaves the score as it is.
C4_ScoreCountsCoins ==
    [][ GameStep
        => /\ score' >= score
           /\ IF level' = level
              THEN /\ coins' \subseteq coins
                   /\ score' = score + 10 * Cardinality(coins \ coins')
              ELSE score' = score ]_vars

\* C4: coins of an earlier level counted, and one of this level collected
C4_ScoreKept == InGame /\ level = 2 /\ score = 30 /\ Cardinality(coins) = 1

\* C5: the animation frame counter is an integer in [0,7].
C5_FrameCounterInRange == player_sprite.cur_texture \in 0 .. 7

\* C5: the counter at its last value, reached by climbing
C5_LastFrame ==
    InGame /\ player_sprite.cur_texture = 7 /\ player_sprite.climbing

\* C6 as claimed: the counter changes only in a step after which dx # 0 or
\* the player is climbing with |dy| > 1.
C6_AdvancesOnlyMoving ==
    [][ (GameStep /\ player_sprite'.cur_texture # player_sprite.cur_texture)
        => \/ player_sprite'.change_x # 0
           \/ /\ player_sprite'.climbing
              /\ AbsVal(player_sprite'.change_y) > 1 * Px ]_vars

\* C6, amended: within a level the counter changes only by 1 modulo 8, in a
\* frame after which dx # 0 or the player is climbing with |dy| > 1; a level
\* transition, which makes a new player sprite, sets it to 0.
C6_AdvancesOrReloads ==
    [][ (GameStep /\ player_sprite'.cur_texture # player_sprite.cur_texture)
        => IF level' = level
           THEN /\ PipelineFrame
                /\ player_sprite'.cur_texture
                      = (player_sprite.cur_texture + 1) % 8
                /\ \/ player_sprite'.change_x # 0
                   \/ /\ player_sprite'.climbing
                      /\ AbsVal(player_sprite'.change_y) > 1 * Px
           ELSE player_sprite'.cur_texture = 0 ]_vars

\* C6: on a ladder, at rest, the counter where climbing left it
C6_RestingOnLadder ==
    /\ InGame /\ player_sprite.climbing
    /\ player_sprite.change_y = 0 /\ player_sprite.change_x = 0
    /\ player_sprite.cur_texture = 3

\* C7: the facing direction changes only in a step after which dx < 0 (to
\* left) or dx > 0 (to right).
C7_StickyFacing ==
    [][ ( /\ GameStep
          /\ player_sprite'.character_face_direction
                # player_sprite.character_face_direction )
        => \/ /\ player_sprite'.character_face_direction = LEFT_FACING
              /\ player_sprite'.change_x < 0
           \/ /\ player_sprite'.character_face_direction = RIGHT_FACING
              /\ player_sprite'.change_x > 0 ]_vars

\* C7: standing still, facing left
C7_FacingLeftAtRest ==
    /\ InGame
    /\ player_sprite.character_face_direction = LEFT_FACING
    /\ player_sprite.change_x = 0
    /\ player_sprite.texture = IdleTexture(LEFT_FACING)

\* a key event of the game
KeyEvent == \E key \in Keys : OnKeyPress(key) \/ OnKeyRelease(key)

\* the vertical velocity of the keys on a ladder
LadderSpeed(up, down) ==
    IF up /\ ~down THEN PLAYER_MOVEMENT_SPEED * Px
    ELSE IF down /\ ~up THEN 0 - PLAYER_MOVEMENT_SPEED * Px
    ELSE 0

\* the horizontal velocity of the keys
WalkSpeed(left, right) ==
    IF right /\ ~left THEN PLAYER_MOVEMENT_SPEED * Px
    ELSE IF left /\ ~right THEN 0 - PLAYER_MOVEMENT_SPEED * Px
    ELSE 0

\* C8 as claimed: on a ladder, after any key event, dy is that of the keys.
C8_LadderVelocity ==
    [][ (KeyEvent /\ on_ladder)
        => player_sprite'.change_y = LadderSpeed(up_pressed', down_pressed')
      ]_vars

\* C8, amended: on a ladder, after any key event made while the level is
\* not over, dy is that of the keys: 0 with up and down both pressed or both
\* released, +PLAYER_MOVEMENT_SPEED with up alone, -PLAYER_MOVEMENT_SPEED
\* with down alone, whatever left and right are.
C8_LadderVelocityPlaying ==
    [][ (KeyEvent /\ on_ladder /\ ~level_over)
        => player_sprite'.change_y = LadderSpeed(up_pressed', down_pressed')
      ]_vars

\* C8: on a ladder with up and down both pressed, moving left, at dy = 0
C8_BothPressed ==
    /\ InGame /\ on_ladder /\ ~level_over
    /\ up_pressed /\ down_pressed /\ left_pressed /\ ~right_pressed
    /\ player_sprite.change_y = 0
    /\ player_sprite.change_x = 0 - PLAYER_MOVEMENT_SPEED * Px

\* C9 as claimed: after any key event dx is that of the keys.
C9_WalkVelocity ==
    [][ KeyEvent
        => player_sprite'.change_x = WalkSpeed(left_pressed', right_pressed')
      ]_vars

\* C9, amended: after any key event made while the level is not over, dx is
\* that of the keys, whatever up and down are.
C9_WalkVelocityPlaying ==
    [][ (KeyEvent /\ ~level_over)
        => player_sprite'.change_x = WalkSpeed(left_pressed', right_pressed')
      ]_vars

\* C9: left and right both pressed with up pressed: dx = 0 while dy # 0
C9_BothPressed ==
    /\ InGame /\ ~level_over
    /\ left_pressed /\ right_pressed /\ up_pressed
    /\ player_sprite.change_x = 0
    /\ player_sprite.change_y = PLAYER_JUMP_SPEED * Px

\* the shift a frame applied to layer count, times its divisor (count+4)/4
AppliedShift(count) == (layer_left'[count] - layer_left[count]) * (count + 4)

\* C10 as claimed: in every frame that runs the pipeline every layer is
\* shifted by (camera x - previous camera x) / ((count + 4) * 0.25).
C10_EveryLayerShifts ==
    [][ PipelineFrame
        => \A count \in Layers :
              AppliedShift(count) = 4 * (camera_x_prev' - camera_x_prev) ]_vars

\* C10, amended: on a level above 1 every background layer, but layer 3 of
\* level 4, is shifted by (camera x - camera_x_prev) / ((count + 4) * 0.25),
\* where camera_x_prev is the camera x of the level's preceding frame, or
\* PLAYER_START_X in the first frame after a level is loaded; on level 1,
\* and for layer 3 of level 4, the shift is 0.  So the shift is 0 for all
\* layers when the camera x equals camera_x_prev.
C10_ParallaxShift ==
    [][ GameStep
        => /\ PipelineFrame
              => \A count \in Layers :
                    IF level > 1 /\ ~(level = 4 /\ count = 3)
                    THEN AppliedShift(count)
                           = 4 * (camera_x_prev' - camera_x_prev)
                    ELSE layer_left'[count] = layer_left[count]
           /\ level' # level
              => /\ camera_x_prev' = PLAYER_START_X
                 /\ \A count \in Layers : layer_left'[count] = 0
           /\ (level' = level /\ ~PipelineFrame)
              => /\ camera_x_prev' = camera_x_prev
                 /\ layer_left' = layer_left ]_vars

\* C10: on the last level the camera has moved: layers 0 to 2 are shifted,
\* each less than the one before, and layer 3 is not
C10_ShiftedLayers ==
    /\ InGame /\ level = 4
    /\ camera_x_prev > PLAYER_START_X
    /\ layer_left[0] > layer_left[1] /\ layer_left[1] > layer_left[2]
    /\ layer_left[2] > 0 /\ layer_left[3] = 0

-----------------------------------------------------------------------------
(* C11                                                                      *)

\* C11 as claimed: after RunFrames update frames the position is at or
\* beyond the boundary and level_over is true.
C11_ReachedAndWaiting ==
    frames >= RunFrames => (Position >= end_of_map /\ level_over)

\* C11, amended: within RunFrames update frames the player's right edge is
\* at or beyond the boundary; level_over is true at the latest one frame
\* later, set by the first frame that finds the right edge there; that
\* frame and the later ones do not move the player, so the right edge stops
\* less than one step beyond the boundary.
C11_EdgeReachesThenWaits ==
    /\ frames >= RunFrames => Right(player_sprite) >= end_of_map
    /\ frames >= RunFrames + 1 => level_over
    /\ level_over
         => /\ Right(player_sprite) >= end_of_map
            /\ Right(player_sprite) < end_of_map + PLAYER_MOVEMENT_SPEED * Px

\* C11: the run measured from the right edge: frame RunFrames + 1 has set
\* level_over, with the right edge 4 pixels beyond the boundary
C11_WaitingAfterRun ==
    /\ world.name = "edge" /\ frames = RunFrames + 1 /\ level_over
    /\ Right(player_sprite) = end_of_map + 4 * Px

-----------------------------------------------------------------------------
(* C12                                                                      *)

\* C12: in a game the victory sound (with its pause) is played at most once;
\* it is played only by an update frame on the last level that finds the
\* player at or beyond the boundary with level_over false, and every update
\* frame at the last level's boundary leaves it played exactly once, leaves
\* level_over true and leaves the score as it is.
C12_VictoryOnce ==
    [][ InGame
        => /\ victory_sounds' <= 1
           /\ victory_sounds' # victory_sounds
                => /\ OnUpdate /\ BeyondBoundary
                   /\ level = max_level /\ ~level_over
                   /\ victory_sounds = 0
           /\ (GameStep /\ OnUpdate /\ BeyondBoundary /\ level = max_level)
                => /\ victory_sounds' = 1
                   /\ level_over'
                   /\ score' = score ]_vars

\* C12: waiting at the last boundary after the victory, with coins counted
\* and the end of the game requested
C12_AfterVictory ==
    /\ InGame /\ level = max_level /\ level_over /\ next_level
    /\ BeyondBoundary
    /\ victory_sounds = 1 /\ score > 0

-----------------------------------------------------------------------------
(* C13                                                                      *)

\* C13: the level changes in a game only in an update frame that finds the
\* player at or beyond the boundary of a level below the last with
\* next_level set, and every such frame changes it; after it the level is
\* one higher, the player is at (SCREEN_WIDTH, SCREEN_HEIGHT / 2) with
\* velocity (0, 0), level_over and next_level are false and the score is
\* what it was.
C13_TransitionEffect ==
    [][ GameStep
        => /\ level' # level
                <=> ( /\ OnUpdate /\ BeyondBoundary
                      /\ level < max_level /\ next_level )
           /\ level' # level
                => /\ level' = level + 1
                   /\ player_sprite'.center_x = SCREEN_WIDTH * Px
                   /\ 2 * player_sprite'.center_y = SCREEN_HEIGHT * Px
                   /\ player_sprite'.change_x = 0
                   /\ player_sprite'.change_y = 0
                   /\ ~level_over' /\ ~next_level'
                   /\ score' = score ]_vars

\* C13: just after a transition made with right held and coins counted: at
\* the re-entry point, at rest
C13_Reentered ==
    /\ InGame /\ level = 2 /\ ~level_over /\ ~next_level
    /\ right_pressed /\ score > 0
    /\ player_sprite.center_x = SCREEN_WIDTH * Px
    /\ 2 * player_sprite.center_y = SCREEN_HEIGHT * Px
    /\ player_sprite.change_x = 0 /\ player_sprite.change_y = 0

-----------------------------------------------------------------------------
(* C14                                                                      *)

\* C14: on the last level the level number and the boundary never change
\* and no coin comes back (no level is loaded); the game's view is left only
\* for the end view, only on the last level, and only by an update frame
\* at the boundary with level_over and next_level set; next_level is set
\* only by a press of space made while level_over is true.
C14_GameCompleteTerminal ==
    [][ InGame
        => /\ (GameStep /\ level = max_level)
                => /\ level' = level
                   /\ end_of_map' = end_of_map
                   /\ coins' \subseteq coins
           /\ view' # view
                => /\ view' = "EndView"
                   /\ level = max_level
                   /\ OnUpdate /\ BeyondBoundary
                   /\ level_over /\ next_level
           /\ (next_level' /\ ~next_level)
                => (level_over /\ OnKeyPress("SPACE")) ]_vars

\* C14: the end view has just been shown, after the victory
C14_EndViewShown ==
    view = "EndView" /\ fade_in = Some(255) /\ victory_sounds = 1

-----------------------------------------------------------------------------
(* C15                                                                      *)

\* C15: an update frame that finds the player's right edge at or beyond
\* end_of_map and makes no transition leaves the player sprite (position,
\* velocity, facing, frame counter, flags, texture), the score, the coin
\* list, the background layers and camera_x_prev as they are.
C15_BoundaryGatesPipeline ==
    [][ (GameStep /\ OnUpdate /\ BeyondBoundary /\ level' = level)
        => /\ player_sprite' = player_sprite
           /\ score' = score
           /\ coins' = coins
           /\ layer_left' = layer_left
           /\ camera_x_prev' = camera_x_prev ]_vars

\* C15: waiting at the boundary with right released: the player still has
\* the velocity and the walking texture of its last move
C15_FrozenWalking ==
    /\ InGame /\ level_over /\ BeyondBoundary
    /\ ~right_pressed /\ ~left_pressed
    /\ player_sprite.change_x = PLAYER_MOVEMENT_SPEED * Px
    /\ player_sprite.texture[1] = "walk"

-----------------------------------------------------------------------------
(* C16                                                                      *)

\* C16 as claimed: in the first evaluation with is_on_ladder false after one
\* with is_on_ladder true, climbing is still true.
C16_ClimbingLags ==
    [][ ( /\ GameStep /\ PipelineFrame
          /\ player_sprite.is_on_ladder /\ ~player_sprite'.is_on_ladder )
        => player_sprite'.climbing ]_vars

\* C16, amended: after every animation evaluation climbing equals
\* is_on_ladder: it is set in every evaluation in which is_on_ladder is true
\* and cleared in the first evaluation in which is_on_ladder is false, with
\* no lag.
C16_ClimbingFollowsLadder ==
    [][ (GameStep /\ PipelineFrame)
        => (player_sprite'.climbing <=> player_sprite'.is_on_ladder) ]_vars

\* C16: the player has just left a ladder it was climbing up: it still
\* rises with the ladder speed less gravity, and climbing is already false
C16_JustLeftLadder ==
    /\ InGame /\ ~player_sprite.is_on_ladder /\ ~player_sprite.climbing
    /\ player_sprite.change_y = PLAYER_MOVEMENT_SPEED * Px - GRAVITY
    /\ player_sprite.texture[1] = "jump"

-----------------------------------------------------------------------------
(* C17                                                                      *)

\* an animation evaluation that ends climbing with |dy| not above 1
ClimbingAtRest ==
    /\ GameStep /\ PipelineFrame
    /\ player_sprite'.climbing
    /\ AbsVal(player_sprite'.change_y) <= 1 * Px

\* C17 as claimed: such an evaluation leaves the texture and the frame
\* counter as they were.
C17_PoseAndCounterKept ==
    [][ ClimbingAtRest
        => /\ player_sprite'.texture = player_sprite.texture
           /\ player_sprite'.cur_texture = player_sprite.cur_texture ]_vars

\* C17, amended: such an evaluation leaves the frame counter as it was and
\* sets the texture to climbing frame counter div 4, whatever the texture
\* was before.
C17_CounterKeptClimbPose ==
    [][ ClimbingAtRest
        => /\ player_sprite'.cur_texture = player_sprite.cur_texture
           /\ player_sprite'.texture
                 = ClimbingTexture(player_sprite.cur_texture \div 4) ]_vars

\* C17: at rest on a ladder, facing left, showing the second climbing frame
C17_SecondClimbFrame ==
    /\ InGame /\ player_sprite.climbing
    /\ player_sprite.change_y = 0
    /\ player_sprite.character_face_direction = LEFT_FACING
    /\ player_sprite.cur_texture = 5
    /\ player_sprite.texture = ClimbingTexture(1)

-----------------------------------------------------------------------------
(* C18                                                                      *)

\* the facing after an evaluation of sprite p
FacingOf(p) ==
    IF p.change_x < 0 THEN LEFT_FACING
    ELSE IF p.change_x > 0 THEN RIGHT_FACING
    ELSE p.character_face_direction

\* the frame counter and texture the claimed rules give sprite p, whose
\* climbing flag after the evaluation is climbing
ClaimedPose(p, climbing) ==
    LET face == FacingOf(p)
        next == (p.cur_texture + 1) % 8
    IN  IF climbing /\ AbsVal(p.change_y) > 1 * Px
        THEN <<next, <<"climb", next \div 4, RIGHT_FACING>> >>
        ELSE IF ~p.is_on_ladder /\ p.change_y > 0
        THEN <<p.cur_texture, <<"jump", 0, face>> >>
        ELSE IF ~p.is_on_ladder /\ p.change_y < 0
        THEN <<p.cur_texture, <<"fall", 0, face>> >>
        ELSE IF p.change_x = 0
        THEN <<p.cur_texture, <<"idle", 0, face>> >>
        ELSE <<next, <<"walk", next, face>> >>

\* C18 as claimed: every evaluation leaves the counter and the texture of
\* the claimed rules.
C18_PoseByClaimedRules ==
    [][ EvaluateAnimation
        => <<player_sprite'.cur_texture, player_sprite'.texture>>
             = ClaimedPose(player_sprite, player_sprite'.climbing) ]_vars

\* C18, amended: every evaluation sets facing by the sign of dx (kept when
\* dx = 0) and climbing to is_on_ladder; then, on a ladder, the counter
\* advances by 1 modulo 8 if |dy| > 1 and is kept otherwise, and the texture
\* is climbing frame counter div 4; off a ladder the claimed rules apply,
\* with the new facing and, for walking, the advanced counter.
C18_PoseByPriority ==
    [][ EvaluateAnimation
        => /\ player_sprite'.character_face_direction
                 = FacingOf(player_sprite)
           /\ player_sprite'.climbing = player_sprite.is_on_ladder
           /\ IF player_sprite.is_on_ladder
              THEN /\ player_sprite'.cur_texture
                        = IF AbsVal(player_sprite.change_y) > 1 * Px
                          THEN (player_sprite.cur_texture + 1) % 8
                          ELSE player_sprite.cur_texture
                   /\ player_sprite'.texture
                        = <<"climb", player_sprite'.cur_texture \div 4,
                            RIGHT_FACING>>
              ELSE <<player_sprite'.cur_texture, player_sprite'.texture>>
                     = ClaimedPose(player_sprite, FALSE) ]_vars

\* C18: walking left, the counter has wrapped to the first walking frame
C18_WalkWrapped ==
    /\ player_sprite.change_x < 0 /\ player_sprite.change_y = 0
    /\ ~player_sprite.is_on_ladder
    /\ player_sprite.cur_texture = 0
    /\ player_sprite.texture = WalkTexture(0, LEFT_FACING)

-----------------------------------------------------------------------------
(* C19                                                                      *)

\* C19 as claimed: a level transition keeps the player's facing, frame
\* counter and climbing and ladder flags.
C19_PlayerStateKept ==
    [][ (GameStep /\ level' # level)
        => /\ player_sprite'.character_face_direction
                 = player_sprite.character_face_direction
           /\ player_sprite'.cur_texture = player_sprite.cur_texture
           /\ player_sprite'.climbing = player_sprite.climbing
           /\ player_sprite'.is_on_ladder = player_sprite.is_on_ladder
      ]_vars

\* C19, amended: a level transition replaces the player by a new sprite:
\* after it the player faces right with frame counter 0, the idle texture
\* and climbing and ladder flags false, whatever they were, at the re-entry
\* point and at rest.
C19_PlayerRecreated ==
    [][ (GameStep /\ level' # level)
        => player_sprite'
             = [ center_x |-> SCREEN_WIDTH * Px,
                 center_y |-> (SCREEN_HEIGHT * Px) \div 2,
                 change_x |-> 0, change_y |-> 0,
                 character_face_direction |-> RIGHT_FACING,
                 cur_texture |-> 0,
                 jumping |-> FALSE, climbing |-> FALSE,
                 is_on_ladder |-> FALSE,
                 texture |-> <<"idle", 0, RIGHT_FACING>> ] ]_vars

\* C19: the third level has just been entered with right held: the new
\* sprite shows the idle texture and counter 0
C19_NewSpriteOnThird ==
    /\ InGame /\ level = 3 /\ right_pressed
    /\ player_sprite.center_x = SCREEN_WIDTH * Px
    /\ player_sprite.change_x = 0
    /\ player_sprite.cur_texture = 0
    /\ player_sprite.texture = IdleTexture(RIGHT_FACING)

-----------------------------------------------------------------------------
(* C20                                                                      *)

\* C20: in every reachable state next_level implies level_over; next_level
\* becomes true only in a press of space made while level_over is true, and
\* a press of space made while level_over is false leaves next_level false.
C20_AdvanceOnlyWhenOver ==
    /\ [](next_level => level_over)
    /\ [][ /\ (next_level' /\ ~next_level)
                => (OnKeyPress("SPACE") /\ level_over)
           /\ (OnKeyPress("SPACE") /\ ~level_over)
                => (~next_level' /\ level' = level /\ ~level_over') ]_vars

\* C20: waiting at the boundary of the second level with the advance
\* requested
C20_AdvanceRequested ==
    /\ InGame /\ level = 2 /\ level_over /\ next_level /\ BeyondBoundary

-----------------------------------------------------------------------------
(* C21                                                                      *)

\* C21: in every state of a game the level is in 1..4 and end_of_map is the
\* table entry of the level times GRID_PIXEL_SIZE; within a game end_of_map
\* changes only in a step that changes the level.
C21_BoundaryOfLevel ==
    /\ [](InGame => /\ level \in 1 .. 4
                     /\ end_of_map = END_OF_MAP[level] * GRID_PIXEL_SIZE)
    /\ [][ (GameStep /\ end_of_map' # end_of_map) => level' # level ]_vars

\* C21: the last level is being played, with the boundary of its table entry
C21_LastLevelBoundary ==
    /\ InGame /\ level = 4 /\ ~level_over
    /\ end_of_map = END_OF_MAP[4] * GRID_PIXEL_SIZE
    /\ player_sprite.change_x # 0

-----------------------------------------------------------------------------
(* C22                                                                      *)

\* C22 as claimed: the level-end check comes after the physics integration
\* of the same frame, so a frame that moves the player's right edge to or
\* beyond the boundary leaves level_over true.
C22_LevelEndLast ==
    [][ ( /\ GameStep /\ PipelineFrame
          /\ Right(player_sprite') >= end_of_map' )
        => level_over' ]_vars

\* C22, amended: the level-end check comes first: a frame that finds the
\* player at or beyond the boundary runs nothing else, and a frame that
\* runs the pipeline leaves level and level_over as they are, also when
\* its physics step reaches the boundary.  In the pipeline the key state
\* is read after the physics step: the velocity a frame sets from the keys
\* (dx of left and right, the jump speed of a jump) is the velocity after
\* the frame, with no gravity applied to it yet.
C22_LevelEndFirst ==
    [][ GameStep
        => /\ (OnUpdate /\ BeyondBoundary /\ level' = level)
                => player_sprite' = player_sprite
           /\ PipelineFrame
                => /\ level' = level /\ level_over' = level_over
                   /\ player_sprite'.change_x
                         = WalkSpeed(left_pressed, right_pressed)
                   /\ jump_sounds' # jump_sounds
                        => player_sprite'.change_y
                             = PLAYER_JUMP_SPEED * Px ]_vars

\* C22: a frame has just brought the walking player beyond the boundary,
\* and level_over is still false
C22_ReachedNotChecked ==
    /\ InGame /\ level = 1 /\ ~level_over
    /\ Right(player_sprite) > end_of_map
    /\ player_sprite.texture[1] = "walk"

-----------------------------------------------------------------------------
(* C23                                                                      *)

\* C23: in a fading view fade_out is absent or one of 0, 5, .., 255; it
\* becomes present only as 0 (the space press made while it is absent), and
\* once present every step that stays in the view adds exactly FADE_RATE to
\* it, so a further press neither restarts nor speeds it up; the view is
\* left only by the step taken at fade_out = 255 = 51 * FADE_RATE, the 52nd
\* update after the press, and the view shown then is a new one whose own
\* fade_out is absent.
C23_FadeOutOnSpace ==
    /\ [](view \in FadingViews /\ fade_out # None
            => fade_out[1] \in {5 * n : n \in 0 .. 51})
    /\ [][ (view \in FadingViews)
           => /\ (view' = view /\ fade_out = None /\ fade_out' # None)
                   => fade_out' = Some(0) /\ fade_in' = fade_in
              /\ (view' = view /\ fade_out # None)
                   => fade_out' = Some(fade_out[1] + 5)
              /\ view' # view
                   => (fade_out = Some(51 * 5) /\ fade_out' = None) ]_vars

\* C23: the second end screen has just been shown by the fade-out of the
\* first
C23_NextViewShown ==
    view = "EndView2" /\ fade_out = None /\ fade_in = Some(255)

-----------------------------------------------------------------------------
(* C24                                                                      *)

-----------------------------------------------------------------------------
(* C25                                                                      *)

\* C25: in every state of a fading view fade_in is absent or in 5..255 and
\* fade_out is absent or in 0..255; every update that stays in the view
\* (every step but the press that sets fade_out to 0) takes exactly
\* FADE_RATE from a present fade_in, and drops it instead of storing 0.
C25_AlphaInRange ==
    /\ [](view \in FadingViews
            => /\ fade_in = None \/ fade_in[1] \in 5 .. 255
               /\ fade_out = None \/ fade_out[1] \in 0 .. 255)
    /\ [][ ( /\ view \in FadingViews /\ view' = view
             /\ fade_in # None
             /\ ~(fade_out = None /\ fade_out' # None) )
           => fade_in' = IF fade_in[1] = 5 THEN None
                         ELSE Some(fade_in[1] - 5) ]_vars

\* C25: both rectangles are drawn, fade_in with its last alpha before it is
\* dropped
C25_LastFadeInAlpha ==
    view = "EndView2" /\ fade_in = Some(5) /\ fade_out = Some(250)

====
